---- MODULE Spec2Model ----
(***************************************************************************)
(* Model of utils/arg_parser.py: parse_args resolves a command line into   *)
(* a build configuration.  One run of parse_args is one behaviour: the     *)
(* request is drawn in Init, each action is one block of parse_args in     *)
(* source order, and the run ends returned, exited or crashed.             *)
(*                                                                         *)
(* Strings are sequences of one-character strings, so that substring       *)
(* search, regex search, slicing and formatting are computed as Python     *)
(* computes them.  Closed enums (mode, os, distribution, ...) are TLA+     *)
(* strings with "None" for Python's None.                                  *)
(***************************************************************************)
EXTENDS Integers, Sequences, FiniteSets, TLC

VARIABLES req, env, argv, args, pc, err, sys_exit, exit_code

vars == <<req, env, argv, args, pc, err, sys_exit, exit_code>>

----------------------------------------------------------------------------
(* Bounds of the request space *)

\* longest user-supplied -t/--tags list
MaxTags == 2
\* longest user-supplied -l/--layers list
MaxLayers == 1
\* longest user-supplied --sdl_check / --linter_check list
MaxChecks == 2
\* longest user-supplied -d/--device list
MaxDevices == 1

----------------------------------------------------------------------------
(* Python values *)

\* None for a string-valued attribute
None == <<"<None>">>
\* None for a list-valued attribute
NoneList == << <<"<None>">> >>

Truthy(x) == x # None /\ x # NoneList /\ x # <<>>

Min(a, b) == IF a < b THEN a ELSE b

\* s[:n]
Slice(s, n) == SubSeq(s, 1, Min(n, Len(s)))

\* s.startswith(p)
StartsWith(s, p) == Len(s) >= Len(p) /\ SubSeq(s, 1, Len(p)) = p

\* p in s
Contains(s, p) == \E i \in 1..(Len(s) - Len(p) + 1) : SubSeq(s, i, i + Len(p) - 1) = p

\* x in list
Member(x, list) == \E i \in 1..Len(list) : list[i] = x

RECURSIVE Join(_, _)
\* sep.join(list)
Join(sep, list) ==
    IF list = <<>> THEN <<>>
    ELSE IF Len(list) = 1 THEN list[1]
    ELSE list[1] \o sep \o Join(sep, Tail(list))

RECURSIVE Split(_, _)
\* s.split(c) for a one-character separator c
Split(s, c) ==
    LET I == {i \in 1..Len(s) : s[i] = c}
    IN  IF I = {} THEN <<s>>
        ELSE LET k == CHOOSE i \in I : \A j \in I : i <= j
             IN  <<SubSeq(s, 1, k - 1)>> \o Split(SubSeq(s, k + 1, Len(s)), c)

\* all sequences over S of length lo..hi
SeqsOf(S, lo, hi) == UNION {[1..n -> S] : n \in lo..hi}

IsDigit(c) == c \in {"0", "1", "2", "3", "4", "5", "6", "7", "8", "9"}

AllDigits(s, a, b) == \A j \in a..b : IsDigit(s[j])

\* re.search(r'(\d{4}\.\d)', s): the leftmost match, or None
SearchVersion(s) ==
    LET M == {i \in 1..(Len(s) - 5) :
                 AllDigits(s, i, i + 3) /\ s[i + 4] = "." /\ IsDigit(s[i + 5])}
    IN  IF M = {} THEN None
        ELSE LET k == CHOOSE i \in M : \A j \in M : i <= j
             IN  SubSeq(s, k, k + 5)

\* re.search(r'p_(\d{4}\.\d\.\d{3})', s): group(1) of the leftmost match, or None
SearchBuildId(s) ==
    LET M == {i \in 1..(Len(s) - 11) :
                 /\ s[i] = "p" /\ s[i + 1] = "_"
                 /\ AllDigits(s, i + 2, i + 5) /\ s[i + 6] = "."
                 /\ IsDigit(s[i + 7]) /\ s[i + 8] = "."
                 /\ AllDigits(s, i + 9, i + 11)}
    IN  IF M = {} THEN None
        ELSE LET k == CHOOSE i \in M : \A j \in M : i <= j
             IN  SubSeq(s, k + 2, k + 11)

\* str(pathlib.PurePosixPath(p)): empty and "." components are dropped, a
\* run of slashes collapses, exactly two leading slashes are kept
PosixPath(p) ==
    LET parts == SelectSeq(Split(p, "/"), LAMBDA x : x # <<>> /\ x # <<".">>)
        root  == IF StartsWith(p, <<"/", "/">>) /\ ~StartsWith(p, <<"/", "/", "/">>)
                 THEN <<"/", "/">>
                 ELSE IF StartsWith(p, <<"/">>) THEN <<"/">> ELSE <<>>
        body  == root \o Join(<<"/">>, parts)
    IN  IF body = <<>> THEN <<".">> ELSE body

\* the process's working directory
Cwd == <<"/","w">>

\* str(pathlib.Path(p).absolute())
Absolute(p) ==
    LET q == PosixPath(p)
    IN  IF StartsWith(q, <<"/">>) THEN q
        ELSE IF q = <<".">> THEN Cwd
        ELSE Cwd \o <<"/">> \o q

----------------------------------------------------------------------------
(* String literals of the source *)

Lit_openvino   == <<"o","p","e","n","v","i","n","o","_">>
Lit_dockerfile == <<".","d","o","c","k","e","r","f","i","l","e">>
Lit_latest     == <<"l","a","t","e","s","t">>
Lit_cpu        == <<"_","c","p","u">>
Lit_http       == <<"h","t","t","p",":","/","/">>
Lit_https      == <<"h","t","t","p","s",":","/","/">>
Lit_ftp        == <<"f","t","p",":","/","/">>
Lit_internal   == <<"_","i","n","t","e","r","n","a","l","_">>
Lit_runtime    == <<"_","r","u","n","t","i","m","e","_">>
Lit_data_dev   == <<"_","d","a","t","a","_","d","e","v","_">>
Lit_dev        == <<"_","d","e","v","_">>
Lit_win        == <<"w","i","n">>
Lit_ubuntu18   == <<"u","b","u","n","t","u","1","8">>
Lit_ubuntu20   == <<"u","b","u","n","t","u","2","0">>

Dev_cpu  == <<"c","p","u">>
Dev_gpu  == <<"g","p","u">>
Dev_vpu  == <<"v","p","u">>
Dev_hddl == <<"h","d","d","l">>

Tok_snyk           == <<"s","n","y","k">>
Tok_bench_security == <<"b","e","n","c","h","_","s","e","c","u","r","i","t","y">>
Tok_hadolint       == <<"h","a","d","o","l","i","n","t">>
Tok_dive           == <<"d","i","v","e">>

\* str(x) of an enum value, as an f-string formats it
Chars(e) ==
    CASE e = "ubuntu18"      -> <<"u","b","u","n","t","u","1","8">>
      [] e = "ubuntu20"      -> <<"u","b","u","n","t","u","2","0">>
      [] e = "winserver2019" -> <<"w","i","n","s","e","r","v","e","r","2","0","1","9">>
      [] e = "base"          -> <<"b","a","s","e">>
      [] e = "runtime"       -> <<"r","u","n","t","i","m","e">>
      [] e = "dev"           -> <<"d","e","v">>
      [] e = "data_dev"      -> <<"d","a","t","a","_","d","e","v">>
      [] e = "internal_dev"  -> <<"i","n","t","e","r","n","a","l","_","d","e","v">>
      [] e = "proprietary"   -> <<"p","r","o","p","r","i","e","t","a","r","y">>
      [] e = "None"          -> <<"N","o","n","e">>

\* f'{x}' of a string-valued attribute
Fmt(x) == IF x = None THEN <<"N","o","n","e">> ELSE x

----------------------------------------------------------------------------
(* Option schema and mode router *)

Modes == {"gen_dockerfile", "build", "build_test", "test", "deploy", "all"}

TemplateModes == {"gen_dockerfile", "build", "build_test", "all"}

\* add_image_args
ImageArgs == {"tags"}

\* add_build_args
BuildArgs == {"file", "image_json_path"}

\* add_test_args
TestArgs == {"sdl_check"}

\* add_deploy_args
DeployArgs == {"registry"}

\* add_dockerfile_args
DockerfileArgs == {"dockerfile_name"}

\* add_template_args
TemplateArgs == {"device", "distribution", "source", "install_type", "os", "python",
                 "package_url", "ocl_release", "product_version", "linter_check", "layers"}

\* the attributes the subparser of a mode declares: hasattr(args, name)
Declared(mode) ==
    CASE mode = "gen_dockerfile" -> DockerfileArgs \cup TemplateArgs
      [] mode = "build"          -> DockerfileArgs \cup TemplateArgs \cup ImageArgs \cup BuildArgs
      [] mode = "build_test"     -> DockerfileArgs \cup TemplateArgs \cup ImageArgs \cup BuildArgs
                                    \cup TestArgs
      [] mode = "test"           -> TemplateArgs \cup ImageArgs \cup BuildArgs \cup TestArgs
      [] mode = "deploy"         -> ImageArgs \cup DeployArgs
      [] mode = "all"            -> DockerfileArgs \cup TemplateArgs \cup ImageArgs \cup BuildArgs
                                    \cup TestArgs \cup DeployArgs
      [] OTHER                   -> {}

\* Required with the registry left optional
RequiredWithoutRegistry(mode) == IF mode = "test" THEN {"tags", "distribution"} ELSE {}

\* required=' test' in parser.prog, required=True
Required(mode) ==
    (IF mode = "test" THEN {"tags", "distribution"} ELSE {})
    \cup (IF "registry" \in Declared(mode) THEN {"registry"} ELSE {})

EnumOptions == {"os", "distribution", "install_type", "source", "python", "ocl_release"}
StringOptions == {"package_url", "product_version", "dockerfile_name", "file",
                  "image_json_path", "registry"}
ListOptions == {"device", "layers", "tags", "sdl_check", "linter_check"}
Options == EnumOptions \cup StringOptions \cup ListOptions

\* the value argparse stores for an option the command line does not give
Default(name) ==
    CASE name = "os"          -> "ubuntu18"
      [] name = "source"      -> "url"
      [] name = "ocl_release" -> "19.41.14441"
      [] name \in EnumOptions -> "None"
      [] name \in {"layers", "sdl_check", "linter_check"} -> <<>>
      [] name \in ListOptions -> NoneList
      [] OTHER                -> None

\* the option is given on the command line
Supplied(r, name) ==
    IF name \in EnumOptions THEN r[name] # "None"
    ELSE IF name \in ListOptions THEN r[name] # <<>>
    ELSE r[name] # None

SuppliedOptions(r) == {name \in Options : Supplied(r, name)}

----------------------------------------------------------------------------
(* External collaborators *)

\* utils.loader.INTEL_OCL_RELEASE
INTEL_OCL_RELEASE == {"20.03.15346", "19.41.14441", "19.04.12237"}

Ver_2021_4 == <<"2","0","2","1",".","4">>

\* keys of utils.loader.INTEL_OPENVINO_VERSION: (product_version, os, distribution)
TableKeys ==
    {<<Ver_2021_4, "ubuntu18", d>> : d \in {"dev", "runtime", "data_dev", "proprietary"}}
    \cup {<<Ver_2021_4, "ubuntu20", "dev">>, <<Ver_2021_4, "winserver2019", "dev">>}

\* INTEL_OPENVINO_VERSION[product_version][os][distribution], None on KeyError
INTEL_OPENVINO_VERSION(version, os, distribution) ==
    IF <<version, os, distribution>> \in TableKeys
    THEN <<"h","t","t","p","s",":","/","/","s","/","l","_">> \o Chars(distribution) \o <<"_","p","_">> \o version \o <<".","6","8","9">>
    ELSE None

\* the character the printable-text check rejects
NonPrintable == "^G"

\* utils.utilities.check_printable_utf8_chars
check_printable_utf8_chars(s) == \A i \in 1..Len(s) : s[i] # NonPrintable

\* utils.utilities.check_internal_local_path
check_internal_local_path(p) == ~Member(<<".", ".">>, Split(p, "/"))

----------------------------------------------------------------------------
(* The request space *)

\* package locators
Url_data_dev == <<"f","t","p",":","/","/","l","_","d","a","t","a","_","d","e","v","_","p","_","2","0","2","1",".","4",".","6","8","9">>
Url_runtime  == <<"h","t","t","p",":","/","/","l","_","r","u","n","t","i","m","e","_">>
Url_internal == <<"h","t","t","p","s",":","/","/","l","_","d","e","v","_","_","i","n","t","e","r","n","a","l","_","p","_","2","0","2","0",".","3",".","3","4","1">>
Url_nomatch  == <<"f","t","p",":","/","/","p","k","g">>
Url_local    == <<"p","k","g","s","/","/","l","_","d","e","v","_","p","_","2","0","2","1",".","4",".","6","8","9","/">>
Url_escape   == <<".",".","/","l","_","d","e","v","_","p","_","2","0","2","1",".","4",".","6","8","9">>

Urls == {Url_data_dev, Url_runtime, Url_internal, Url_nomatch, Url_local, Url_escape}

\* product versions
Ver_build   == <<"2","0","2","1",".","4",".","6","8","9">>
Ver_prefix  == <<"x","2","0","2","1",".","4">>
Ver_year    == <<"2","0","2","1">>
Ver_other   == <<"2","0","2","0",".","3">>

Versions == {Ver_2021_4, Ver_build, Ver_prefix, Ver_year, Ver_other}

Tag_versioned == <<"i","m","g",":","1">>
Tag_latest    == <<"i","m","g",":","l","a","t","e","s","t">>
TagPool == {Tag_versioned, Tag_latest}

Layer_model_server == <<"m","o","d","e","l","_","s","e","r","v","e","r">>
LayerPool == {Layer_model_server}

DevicePool == {Dev_gpu}

Tok_foo == <<"f","o","o">>
SdlPool == {Tok_snyk, Tok_bench_security, Tok_foo}
LinterPool == {Tok_hadolint, Tok_dive, Tok_foo}

Name_custom == <<"m","y",".","d","o","c","k","e","r","f","i","l","e">>
Name_bell   == <<"b", NonPrintable>>
Path_file   == <<"D","o","c","k","e","r","f","i","l","e">>
Path_json   == <<"o","u","t","/",".","/","i","m","g",".","j","s","o","n">>
Registry_host == <<"r","e","g",":","5","0","0","0">>

ModeTokens == Modes \cup {"None", "bogus"}
OsValues == {"ubuntu18", "ubuntu20", "winserver2019"}
Distributions == {"base", "runtime", "dev", "data_dev", "internal_dev", "proprietary"}
InstallTypes == {"copy", "install"}
FsKinds == {"missing", "file", "symlink"}

\* a command line with no arguments, in an empty project directory
Bare ==
    [mode |-> "None", os |-> "None", distribution |-> "None", install_type |-> "None",
     source |-> "None", python |-> "None", ocl_release |-> "None",
     package_url |-> None, product_version |-> None, dockerfile_name |-> None,
     file |-> None, image_json_path |-> None, registry |-> None,
     device |-> <<>>, layers |-> <<>>, tags |-> <<>>, sdl_check |-> <<>>,
     linter_check |-> <<>>,
     pkg_fs |-> "missing", file_fs |-> "missing", json_fs |-> "missing"]

\* the registry argparse requires in the modes that declare it
Reg(mode) == IF "registry" \in Declared(mode) THEN Registry_host ELSE None

EnvFields == {"pkg_fs", "file_fs", "json_fs"}

ReqFields == Options \cup {"mode"}

\* the namespace before argparse has filled it
EmptyArgs ==
    [n \in Options \cup {"mode", "build_id", "year"} |->
        IF n \in Options THEN Default(n) ELSE IF n = "mode" THEN "None" ELSE None]

\* parse_args is entered with the command line and file system of scenario s
Start(s) ==
    /\ req = [n \in ReqFields |-> s[n]]
    /\ env = [n \in EnvFields |-> s[n]]
    /\ argv = [positional |-> IF s.mode = "None" THEN <<>> ELSE <<s.mode>>,
               options |-> SuppliedOptions(s)]
    /\ args = EmptyArgs
    /\ pc = "start"
    /\ err = ""
    /\ sys_exit = <<>>
    /\ exit_code = <<>>

\* mode, os, distribution, install type, locator and version
CoreRequests ==
    \E m \in Modes \cup {"None"}, o \in OsValues \cup {"None"},
        d \in Distributions \cup {"None"}, i \in InstallTypes \cup {"None"},
        u \in (Urls \ {Url_escape}) \cup {None, <<>>},
        v \in Versions \cup {None, <<>>} :
        Start([Bare EXCEPT !.mode = m, !.os = o, !.distribution = d, !.install_type = i,
                  !.package_url = u, !.product_version = v, !.registry = Reg(m)])

\* devices, layers, tags and names
NamingRequests ==
    \E m \in TemplateModes \cup {"test"}, o \in {"None", "winserver2019"},
        d \in {"None", "base", "dev"}, u \in {None, Url_data_dev},
        v \in {None, Ver_build}, dv \in SeqsOf(DevicePool, 0, MaxDevices),
        l \in SeqsOf(LayerPool, 0, MaxLayers), t \in SeqsOf(TagPool, 0, MaxTags),
        n \in {None, Name_custom}, f \in {None, Path_file} :
        Start([Bare EXCEPT !.mode = m, !.os = o, !.distribution = d, !.package_url = u,
                  !.product_version = v, !.device = dv, !.layers = l, !.tags = t,
                  !.dockerfile_name = n, !.file = f, !.file_fs = "file",
                  !.registry = Reg(m)])

\* package source and the file system under the locator
SourceRequests ==
    \E m \in {"gen_dockerfile", "build"}, s \in {"None", "url", "local"},
        k \in FsKinds, u \in Urls, d \in {"None", "base", "dev"},
        v \in {None, Ver_2021_4}, p \in {"None", "python37"},
        c \in {"None", "20.03.15346"} :
        Start([Bare EXCEPT !.mode = m, !.source = s, !.pkg_fs = k, !.package_url = u,
                  !.distribution = d, !.product_version = v, !.python = p,
                  !.ocl_release = c])

\* security-scan and linter selections
CheckRequests ==
    \E m \in {"build_test", "test", "all"}, s \in SeqsOf(SdlPool, 0, MaxChecks),
        l \in SeqsOf(LinterPool, 0, MaxChecks) :
        Start([Bare EXCEPT !.mode = m, !.distribution = "dev", !.product_version = Ver_2021_4,
                  !.sdl_check = s, !.linter_check = l, !.tags = <<Tag_versioned>>,
                  !.registry = Reg(m)])

\* registry and tags in every mode, with and without a mode token
RegistryRequests ==
    \E m \in ModeTokens, d \in {"None", "dev"}, v \in {None, Ver_2021_4},
        r \in {None, <<>>, Registry_host}, t \in {<<>>, <<Tag_versioned>>},
        l \in {<<>>, <<Tok_foo>>} :
        Start([Bare EXCEPT !.mode = m, !.distribution = d, !.product_version = v,
                  !.registry = r, !.tags = t, !.linter_check = l])

\* dockerfile path, report path and dockerfile name
FileRequests ==
    \E m \in {"build", "test", "all"}, d \in {"base", "runtime", "dev"},
        v \in {None, Ver_2021_4}, f \in {None, <<>>, Path_file, Url_escape},
        fk \in FsKinds, j \in {None, Path_json}, jk \in {"file", "symlink"},
        n \in {None, Name_bell} :
        Start([Bare EXCEPT !.mode = m, !.distribution = d, !.install_type = "install",
                  !.product_version = v, !.file = f, !.file_fs = fk,
                  !.image_json_path = j, !.json_fs = jk, !.tags = <<Tag_versioned>>,
                  !.dockerfile_name = n, !.registry = Reg(m)])

----------------------------------------------------------------------------
(* State *)

Init ==
    \/ CoreRequests
    \/ NamingRequests
    \/ SourceRequests
    \/ CheckRequests
    \/ RegistryRequests
    \/ FileRequests

\* exit status of argparse's parser.error()
ErrorStatus == 2

\* exit status of an interpreter that ends on an uncaught exception
UncaughtStatus == 1

\* parser.error(message): SystemExit in flight, caught at the except clause
Error(message) ==
    /\ pc' = "except"
    /\ err' = message
    /\ sys_exit' = <<ErrorStatus>>
    /\ UNCHANGED <<req, env, argv, args, exit_code>>

\* an exception other than SystemExit leaves parse_args uncaught
Crash(exception) ==
    /\ pc' = "crashed"
    /\ err' = exception
    /\ exit_code' = <<UncaughtStatus>>
    /\ UNCHANGED <<req, env, argv, args, sys_exit>>

\* the block ends normally with the namespace a, control moves to block next
Goto(next, a) ==
    /\ pc' = next
    /\ args' = a
    /\ UNCHANGED <<req, env, argv, err, sys_exit, exit_code>>

HasAttr(a, name) == name \in Declared(a.mode)

----------------------------------------------------------------------------
(* parse_args, block by block *)

\* sys.argv after set_default_subparser(name)
set_default_subparser(a, name) ==
    IF a.positional = <<>> /\ a.options = {}
    THEN [a EXCEPT !.positional = <<name>>]
    ELSE a

\* parser.set_default_subparser('all')
SetDefaultSubparser ==
    /\ pc = "start"
    /\ argv' = set_default_subparser(argv, "all")
    /\ pc' = "parse"
    /\ UNCHANGED <<req, env, args, err, sys_exit, exit_code>>

\* what argparse rejects: "" when the command line parses
ParseError(a) ==
    LET token == IF a.positional = <<>> THEN "None" ELSE a.positional[1]
    IN  IF token = "None" /\ a.options # {} THEN "unrecognized arguments"
        ELSE IF token = "None" THEN ""
        ELSE IF token \notin Modes THEN "invalid choice"
        ELSE IF ~(a.options \subseteq Declared(token)) THEN "unrecognized arguments"
        ELSE IF ~(Required(token) \subseteq a.options)
             THEN "the following arguments are required"
        ELSE ""

\* the namespace argparse builds
Namespace(a, r) ==
    LET token == IF a.positional = <<>> THEN "None" ELSE a.positional[1]
    IN  [n \in Options \cup {"mode", "build_id", "year"} |->
            IF n = "mode" THEN token
            ELSE IF n \in a.options /\ n \in Declared(token) THEN r[n]
            ELSE IF n \in Options THEN Default(n)
            ELSE None]

\* args = parser.parse_args()
ParseArgs ==
    /\ pc = "parse"
    /\ IF ParseError(argv) # ""
       THEN Error(ParseError(argv))
       ELSE Goto("sanitize", Namespace(argv, req))

\* the strings of the namespace the printable-text check sees
CheckedStrings(a) ==
    {a[n] : n \in {m \in StringOptions \cap Declared(a.mode) : a[m] # None}}
    \cup UNION {{a[n][i] : i \in 1..Len(a[n])} :
                  n \in {m \in ListOptions \cap Declared(a.mode) : a[m] # NoneList}}

\* the path-like attributes the path check sees
CheckedPaths(a) ==
    {a[n] : n \in {m \in {"package_url", "file", "image_json_path"} :
                      HasAttr(a, m) /\ Truthy(a[m])}}

\* the sanitizer and the as_posix conversion of a local locator
Sanitize ==
    /\ pc = "sanitize"
    /\ IF \E s \in CheckedStrings(args) : ~check_printable_utf8_chars(s)
       THEN Error("non-printable characters")
       ELSE IF \E p \in CheckedPaths(args) : ~check_internal_local_path(p)
       THEN Error("path outside the project")
       ELSE IF ~HasAttr(args, "package_url")
       THEN Crash("AttributeError: package_url")
       ELSE IF Truthy(args.package_url) /\ args.source = "local"
       THEN Goto("validate", [args EXCEPT !.package_url = PosixPath(args.package_url)])
       ELSE Goto("validate", args)

\* the security-scan selection is refused
SdlRejected(list) == ~Member(Tok_snyk, list) /\ ~Member(Tok_bench_security, list)

\* the linter selection is refused
LinterRejected(list) == ~Member(Tok_hadolint, list) /\ ~Member(Tok_dive, list)

\* the mode asks for a registry and the namespace has none
RegistryMissing(a) == a.mode \in {"deploy", "all"} /\ ~HasAttr(a, "registry")

\* the first cross-field check that fails, "" when all pass
ValidationError(a, fs) ==
    IF a.mode \in TemplateModes /\ a.install_type = "None" /\ ~Truthy(a.product_version)
    THEN "required: --install_type"
    ELSE IF HasAttr(a, "sdl_check") /\ Truthy(a.sdl_check) /\ SdlRejected(a.sdl_check)
    THEN "incorrect --sdl_check"
    ELSE IF HasAttr(a, "linter_check") /\ Truthy(a.linter_check)
            /\ LinterRejected(a.linter_check)
    THEN "incorrect --linter_check"
    ELSE IF a.mode \in {"build", "build_test", "all"} /\ a.distribution = "base"
            /\ ~Truthy(a.file)
    THEN "required: -f/--file"
    ELSE IF a.mode = "deploy" /\ ~Truthy(a.tags)
    THEN "required: -t/--tags"
    ELSE IF a.mode = "gen_dockerfile" /\ a.distribution = "base"
    THEN "base dockerfile is not generated"
    ELSE IF a.mode = "test" /\ a.distribution = "runtime" /\ ~Truthy(a.package_url)
    THEN "required: --package_url"
    ELSE IF a.mode = "test" /\ ~(Truthy(a.tags) /\ a.distribution # "None")
    THEN "tag and distribution are mandatory"
    ELSE IF RegistryMissing(a)
    THEN "required: --registry"
    ELSE IF a.distribution = "proprietary" /\ a.install_type = "copy"
    THEN "proprietary needs install"
    ELSE IF HasAttr(a, "image_json_path") /\ Truthy(a.image_json_path)
            /\ fs.json_fs = "symlink"
    THEN "symlink: --image_json_path"
    ELSE IF HasAttr(a, "file") /\ Truthy(a.file) /\ fs.file_fs = "symlink"
    THEN "symlink: --file"
    ELSE IF HasAttr(a, "file") /\ Truthy(a.file) /\ fs.file_fs = "missing"
    THEN "dockerfile not found"
    ELSE ""

\* the two path attributes made absolute
AbsolutePaths(a) ==
    [a EXCEPT !.image_json_path = IF HasAttr(a, "image_json_path") /\ Truthy(@)
                                  THEN Absolute(@) ELSE @,
              !.file = IF HasAttr(a, "file") /\ Truthy(@) THEN Absolute(@) ELSE @]

\* the cross-field checks after the sanitizer
Validate ==
    /\ pc = "validate"
    /\ IF ValidationError(args, env) # ""
       THEN Error(ValidationError(args, env))
       ELSE Goto(IF args.mode \in TemplateModes THEN "package" ELSE "tags",
                 AbsolutePaths(args))

\* the OpenCL release and locator checks: "" when they pass
PackageError(a, fs) ==
    IF a.ocl_release \notin INTEL_OCL_RELEASE
    THEN "OpenCL release not acceptable"
    ELSE IF Truthy(a.package_url)
            /\ ~(StartsWith(a.package_url, Lit_http) \/ StartsWith(a.package_url, Lit_https)
                 \/ StartsWith(a.package_url, Lit_ftp))
    THEN IF a.source = "local" /\ fs.pkg_fs = "missing"
         THEN "local package not found"
         ELSE IF a.source = "url" /\ a.distribution # "base"
         THEN "URL is not supported"
         ELSE IF a.source = "local" /\ fs.pkg_fs = "symlink"
         THEN "symlink: --package_url"
         ELSE ""
    ELSE ""

\* ocl_release and package_url checks
CheckPackage ==
    /\ pc = "package"
    /\ IF PackageError(args, env) # ""
       THEN Error(PackageError(args, env))
       ELSE Goto("python", args)

\* PythonFor with the two ubuntu interpreters swapped
PythonForSwapped(os) ==
    IF Contains(Chars(os), Lit_ubuntu18) THEN "python38"
    ELSE IF Contains(Chars(os), Lit_ubuntu20) THEN "python36"
    ELSE "python37"

\* the interpreter an os gets when none is given
PythonFor(os) ==
    IF Contains(Chars(os), Lit_ubuntu18) THEN "python36"
    ELSE IF Contains(Chars(os), Lit_ubuntu20) THEN "python38"
    ELSE "python37"

\* interpreter default
DefaultPython ==
    /\ pc = "python"
    /\ Goto("distribution",
            IF args.python = "None" THEN [args EXCEPT !.python = PythonFor(args.os)]
            ELSE args)

\* InferDistribution with _dev_ tried before _data_dev_
InferDistributionDevFirst(url) ==
    IF Contains(url, Lit_internal) THEN "internal_dev"
    ELSE IF Contains(url, Lit_runtime) THEN "runtime"
    ELSE IF Contains(url, Lit_dev) THEN "dev"
    ELSE IF Contains(url, Lit_data_dev) THEN "data_dev"
    ELSE "None"

\* the distribution a locator names, "None" when it names none
InferDistribution(url) ==
    IF Contains(url, Lit_internal) THEN "internal_dev"
    ELSE IF Contains(url, Lit_runtime) THEN "runtime"
    ELSE IF Contains(url, Lit_data_dev) THEN "data_dev"
    ELSE IF Contains(url, Lit_dev) THEN "dev"
    ELSE "None"

\* distribution inference
DistributionInference ==
    /\ pc = "distribution"
    /\ IF args.distribution = "None" /\ Truthy(args.package_url)
       THEN IF InferDistribution(args.package_url) = "None"
            THEN Error("cannot get distribution from the package URL")
            ELSE Goto("device",
                      [args EXCEPT !.distribution = InferDistribution(args.package_url)])
       ELSE Goto("device", args)

\* the device list after defaulting
DefaultDevice(device, os, distribution) ==
    IF ~Truthy(device) /\ ~Contains(Chars(os), Lit_win)
    THEN IF distribution = "base" THEN <<Dev_cpu>>
         ELSE <<Dev_cpu, Dev_gpu, Dev_vpu, Dev_hddl>>
    ELSE <<Dev_cpu>>

\* device defaulting
DeviceDefaulting ==
    /\ pc = "device"
    /\ Goto("version",
            [args EXCEPT !.device = DefaultDevice(args.device, args.os, args.distribution)])

\* the request has no locator and its distribution needs one looked up
NeedsLookup(a) == ~Truthy(a.package_url) /\ a.distribution \notin {"base", "internal_dev"}

\* LooksUp with gen_dockerfile treated as the other modes
LooksUpInEveryMode(mode) == TRUE

\* the modes that extract YYYY.U and look the locator up
LooksUp(mode) == mode # "gen_dockerfile"

\* the YYYY.U part of a supplied product version, None when it has none
ExtractVersion(version) == SearchVersion(version)

\* what version resolution rejects: "" when it passes
VersionError(a) ==
    IF ~NeedsLookup(a) THEN ""
    ELSE IF a.distribution = "None" \/ ~Truthy(a.product_version)
    THEN "insufficient arguments"
    ELSE IF ~LooksUp(a.mode) THEN ""
    ELSE IF ExtractVersion(a.product_version) = None
    THEN "cannot find package url for version"
    ELSE IF ~Truthy(INTEL_OPENVINO_VERSION(ExtractVersion(a.product_version), a.os,
                                           a.distribution))
    THEN "cannot find package url for version and distribution"
    ELSE ""

\* the namespace after version resolution
VersionResult(a) ==
    IF NeedsLookup(a) /\ LooksUp(a.mode)
    THEN [a EXCEPT !.build_id = a.product_version,
                   !.product_version = ExtractVersion(a.product_version),
                   !.package_url = INTEL_OPENVINO_VERSION(
                       ExtractVersion(a.product_version), a.os, a.distribution)]
    ELSE [a EXCEPT !.build_id = a.product_version]

\* version and build-id resolution
VersionResolution ==
    /\ pc = "version"
    /\ IF VersionError(args) # ""
       THEN Error(VersionError(args))
       ELSE Goto("build_id", VersionResult(args))

\* the YYYY.U prefix of a build id
VersionOfBuild(build_id) == Slice(build_id, 6)

\* build id and product version from the locator
BuildIdFromUrl ==
    /\ pc = "build_id"
    /\ IF Truthy(args.package_url) /\ ~Truthy(args.build_id)
       THEN IF SearchBuildId(args.package_url) = None
            THEN Error("cannot get build number from the package URL")
            ELSE Goto("name",
                      [args EXCEPT !.build_id = SearchBuildId(args.package_url),
                                   !.product_version =
                                       VersionOfBuild(SearchBuildId(args.package_url))])
       ELSE Goto("name", args)

\* ''.join([d[0] for d in device])
Initials(device) == [i \in 1..Len(device) |-> device[i][1]]

\* the generated dockerfile name
DockerfileNameFor(a) ==
    IF Join(<<"_">>, a.layers) # <<>>
    THEN Lit_openvino \o Join(<<"_">>, a.layers) \o <<"_">> \o Fmt(a.product_version)
         \o Lit_dockerfile
    ELSE Lit_openvino \o Initials(a.device) \o <<"_">> \o Chars(a.distribution) \o <<"_">>
         \o Fmt(a.product_version) \o Lit_dockerfile

\* dockerfile name derivation
DockerfileName ==
    /\ pc = "name"
    /\ Goto("tags",
            IF ~Truthy(args.dockerfile_name)
            THEN [args EXCEPT !.dockerfile_name = DockerfileNameFor(args)]
            ELSE args)

\* build_id if build_id else product_version
BuildOrVersion(a) == IF Truthy(a.build_id) THEN a.build_id ELSE a.product_version

\* the image name of the derived tags
TagName(a) ==
    IF Join(<<"_">>, a.layers) # <<>>
    THEN Chars(a.os) \o <<"_">> \o Join(<<"_">>, a.layers)
    ELSE IF a.distribution = "base"
    THEN Chars(a.os) \o <<"_">> \o Chars(a.distribution) \o Lit_cpu
    ELSE Chars(a.os) \o <<"_">> \o Chars(a.distribution)

\* the version of the first derived tag
TagVersion(a) ==
    IF Join(<<"_">>, a.layers) = <<>> /\ a.distribution = "base"
    THEN Fmt(a.product_version)
    ELSE Fmt(BuildOrVersion(a))

\* DerivedTags without the latest tag
DerivedTagsVersionedOnly(a) == << TagName(a) \o <<":">> \o TagVersion(a) >>

\* the two derived tags
DerivedTags(a) ==
    << TagName(a) \o <<":">> \o TagVersion(a), TagName(a) \o <<":">> \o Lit_latest >>

\* the tags are derived rather than taken from the command line
TagsDerived(a) == ~HasAttr(a, "tags") \/ ~Truthy(a.tags)

\* tag derivation
TagDerivation ==
    /\ pc = "tags"
    /\ Goto("year", IF TagsDerived(args) THEN [args EXCEPT !.tags = DerivedTags(args)]
                    ELSE args)

\* year derivation and return
YearDerivation ==
    /\ pc = "year"
    /\ IF args.mode \in {"test", "deploy"}
       THEN Goto("returned", args)
       ELSE IF ~Truthy(args.build_id) /\ args.product_version = None
       THEN Crash("TypeError: NoneType is not subscriptable")
       ELSE Goto("returned", [args EXCEPT !.year = Slice(BuildOrVersion(args), 4)])

\* the status of the process after a bare "raise SystemExit"
ReraisedStatus(caught) == 0

\* except SystemExit: print the usage, raise SystemExit
ExceptSystemExit ==
    /\ pc = "except"
    /\ pc' = "exited"
    /\ exit_code' = <<ReraisedStatus(sys_exit[1])>>
    /\ sys_exit' = <<>>
    /\ UNCHANGED <<req, env, argv, args, err>>

Next ==
    \/ SetDefaultSubparser
    \/ ParseArgs
    \/ Sanitize
    \/ Validate
    \/ CheckPackage
    \/ DefaultPython
    \/ DistributionInference
    \/ DeviceDefaulting
    \/ VersionResolution
    \/ BuildIdFromUrl
    \/ DockerfileName
    \/ TagDerivation
    \/ YearDerivation
    \/ ExceptSystemExit

Spec == Init /\ [][Next]_vars

\* parse_args has returned the namespace to its caller
Returned == pc = "returned"

\* the invocation ended without returning a namespace
Failed == pc \in {"exited", "crashed"}

----------------------------------------------------------------------------
(* Properties *)

\* the blocks after distribution inference
AfterInference == {"device", "version", "build_id", "name", "tags", "year", "returned"}

\* the blocks after version resolution
AfterVersion == {"build_id", "name", "tags", "year", "returned"}

\* the part of an IMAGE_NAME:TAG string after its last colon
TagPart(tag) == Split(tag, ":")[Len(Split(tag, ":"))]

\* C1: a request that fails a validation check ends the process with a
\* non-zero exit status (a clean run ends with status 0) and returns no
\* configuration.
C1_FailureExitsNonZero ==
    (err # "" /\ pc \in {"exited", "crashed"}) => exit_code # <<>> /\ exit_code[1] # 0

\* C2: when the command line has no mode token, empty or flags only, the
\* mode all is inserted before parsing.
C2_DefaultModeInserted ==
    (req.mode = "None" /\ pc # "start") => argv.positional = <<"all">>

\* C3: in the four template modes a user-supplied device list is returned
\* unchanged; an absent one becomes [cpu] on Windows, else [cpu] for base,
\* else [cpu, gpu, vpu, hddl].
C3_DeviceListKept ==
    (Returned /\ args.mode \in TemplateModes) =>
        args.device =
            IF req.device # <<>> THEN req.device
            ELSE IF args.os = "winserver2019" THEN <<Dev_cpu>>
            ELSE IF args.distribution = "base" THEN <<Dev_cpu>>
            ELSE <<Dev_cpu, Dev_gpu, Dev_vpu, Dev_hddl>>

\* C4: a returned configuration has only snyk and bench_security in
\* sdl_check and only hadolint and dive in linter_check: a list with any
\* other token is rejected.
C4_InvalidCheckTokenRejected ==
    Returned =>
        /\ \A i \in 1..Len(req.sdl_check) :
              req.sdl_check[i] \in {Tok_snyk, Tok_bench_security}
        /\ \A i \in 1..Len(req.linter_check) :
              req.linter_check[i] \in {Tok_hadolint, Tok_dive}

\* C5 as stated: in build, build_test, all and deploy no request without a
\* registry is accepted.
C5_RegistryRequiredInFourModes ==
    (Returned /\ args.mode \in {"build", "build_test", "all", "deploy"}) =>
        req.registry # None

\* C5 as amended: in all and deploy, the modes that declare --registry, a
\* request without a registry is rejected by the argument parser; build and
\* build_test do not declare the option and reject a request that gives it.
C5_RegistryRequiredWhereDeclared ==
    (pc \notin {"start", "parse"}) =>
        /\ (argv.positional \in {<<"all">>, <<"deploy">>} /\ req.registry = None)
              => (pc \in {"except", "exited"} /\ args = EmptyArgs)
        /\ (argv.positional \in {<<"build">>, <<"build_test">>} /\ req.registry # None)
              => (pc \in {"except", "exited"} /\ args = EmptyArgs)

\* a request in mode all without a registry has been refused by argparse
C5_Witness ==
    /\ pc = "exited"
    /\ argv.positional = <<"all">>
    /\ req.registry = None
    /\ err = "the following arguments are required"

\* C6: in every returned configuration with build_id set, product_version
\* is a prefix of build_id.
C6_VersionPrefixOfBuildId ==
    (Returned /\ args.mode \in TemplateModes /\ Truthy(args.build_id)) =>
        StartsWith(args.build_id, Fmt(args.product_version))

\* C7 as stated: the tags of a returned configuration, user-supplied or
\* derived, are at least two and the second one's tag is latest.
C7_TagsPairWithLatest ==
    (Returned /\ Truthy(args.tags)) =>
        Len(args.tags) >= 2 /\ TagPart(args.tags[2]) = <<"l","a","t","e","s","t">>

\* C7 as amended: derived tags are exactly two and the second one's tag is
\* latest; user-supplied tags are returned as given, whatever their number.
C7_DerivedTagsPairWithLatest ==
    Returned =>
        IF req.tags = <<>>
        THEN Len(args.tags) = 2 /\ TagPart(args.tags[2]) = <<"l","a","t","e","s","t">>
        ELSE args.tags = req.tags

\* a configuration returned with derived tags
C7_Witness ==
    Returned /\ req.tags = <<>> /\ Len(args.tags) = 2 /\ args.layers # <<>>

\* C8: in the four template modes a distribution that is not supplied is
\* inferred from the locator in the order _internal_, _runtime_,
\* _data_dev_, _dev_; a locator with none of them is rejected; a supplied
\* distribution is never changed.
C8_DistributionInferredInOrder ==
    /\ (args.mode \in TemplateModes /\ pc \in AfterInference) =>
          IF req.distribution # "None" THEN args.distribution = req.distribution
          ELSE IF ~Truthy(req.package_url) THEN args.distribution = "None"
          ELSE IF Contains(req.package_url, <<"_","i","n","t","e","r","n","a","l","_">>)
          THEN args.distribution = "internal_dev"
          ELSE IF Contains(req.package_url, <<"_","r","u","n","t","i","m","e","_">>)
          THEN args.distribution = "runtime"
          ELSE IF Contains(req.package_url, <<"_","d","a","t","a","_","d","e","v","_">>)
          THEN args.distribution = "data_dev"
          ELSE IF Contains(req.package_url, <<"_","d","e","v","_">>)
          THEN args.distribution = "dev"
          ELSE FALSE
    /\ (args.mode \in TemplateModes /\ Returned) => args.distribution # "None"

\* a locator with _data_dev_ and _dev_ has been resolved to data_dev
C8_Witness ==
    /\ Returned
    /\ req.distribution = "None"
    /\ Contains(req.package_url, <<"_","d","a","t","a","_","d","e","v","_">>)
    /\ Contains(req.package_url, <<"_","d","e","v","_">>)
    /\ args.distribution = "data_dev"

\* the request of C9: build, ubuntu18, dev, 2021.4 and nothing else
C9_Request ==
    /\ req.mode = "build"
    /\ req.os \in {"None", "ubuntu18"}
    /\ req.distribution = "dev"
    /\ req.product_version = <<"2","0","2","1",".","4">>
    /\ SuppliedOptions(req) \subseteq {"os", "distribution", "product_version"}

\* C9: the request build, ubuntu18, dev, 2021.4 resolves to python36,
\* [cpu, gpu, vpu, hddl], openvino_cgvh_dev_2021.4.dockerfile,
\* [ubuntu18_dev:2021.4, ubuntu18_dev:latest] and year 2021.
C9_Example ==
    C9_Request =>
        /\ ~Failed /\ pc # "except"
        /\ Returned =>
              /\ args.python = "python36"
              /\ args.device = <<<<"c","p","u">>, <<"g","p","u">>, <<"v","p","u">>, <<"h","d","d","l">>>>
              /\ args.dockerfile_name = <<"o","p","e","n","v","i","n","o","_","c","g","v","h","_","d","e","v","_","2","0","2","1",".","4",".","d","o","c","k","e","r","f","i","l","e">>
              /\ args.tags = <<<<"u","b","u","n","t","u","1","8","_","d","e","v",":","2","0","2","1",".","4">>, <<"u","b","u","n","t","u","1","8","_","d","e","v",":","l","a","t","e","s","t">>>>
              /\ args.year = <<"2","0","2","1">>

\* the request of C9 has been resolved
C9_Witness == Returned /\ C9_Request /\ req.os = "ubuntu18"

\* C10 as stated: without a locator and with a distribution other than
\* base and internal_dev, all four template modes need distribution and
\* product_version, extract YYYY.U from product_version and fail without
\* it; only the table miss is tolerated in gen_dockerfile.
C10_ExtractionInFourModes ==
    (args.mode \in TemplateModes /\ pc \in AfterVersion /\ req.package_url = None
     /\ req.distribution \notin {"base", "internal_dev"}) =>
        /\ req.distribution # "None" /\ Truthy(req.product_version)
        /\ SearchVersion(req.product_version) # None
        /\ args.product_version = SearchVersion(req.product_version)
        /\ args.mode # "gen_dockerfile" =>
              <<args.product_version, args.os, args.distribution>> \in TableKeys

\* C10 as amended: all four modes need distribution and product_version;
\* build, build_test and all extract YYYY.U, fail without it and fail on a
\* table miss; gen_dockerfile neither extracts nor looks up: it keeps the
\* supplied product_version as given and leaves the locator absent.
C10_ExtractionOutsideGenDockerfile ==
    (args.mode \in TemplateModes /\ pc \in AfterVersion /\ req.package_url = None
     /\ req.distribution \notin {"base", "internal_dev"}) =>
        /\ req.distribution # "None" /\ Truthy(req.product_version)
        /\ IF args.mode = "gen_dockerfile"
           THEN args.product_version = req.product_version /\ args.package_url = None
           ELSE /\ SearchVersion(req.product_version) # None
                /\ args.product_version = SearchVersion(req.product_version)
                /\ <<args.product_version, args.os, args.distribution>> \in TableKeys
                /\ Truthy(args.package_url)

\* gen_dockerfile has accepted a product_version with no YYYY.U in it
C10_Witness ==
    /\ Returned
    /\ args.mode = "gen_dockerfile"
    /\ req.package_url = None
    /\ req.product_version = <<"2","0","2","1">>
    /\ args.product_version = <<"2","0","2","1">>

\* a deploy request that gives tags and a registry, only options the
\* deploy mode declares, and passes the sanitizer
C11_Request ==
    /\ req.mode = "deploy"
    /\ req.tags # <<>>
    /\ req.registry # None
    /\ SuppliedOptions(req) \subseteq Declared("deploy")
    /\ \A i \in 1..Len(req.tags) : check_printable_utf8_chars(req.tags[i])
    /\ check_printable_utf8_chars(req.registry)

\* C11: a deploy request with tags and a registry that passes the
\* sanitizer is accepted: parse_args reads no option the deploy mode does
\* not declare, runs to completion and returns the user's tags and no year.
C11_DeployAccepted ==
    C11_Request =>
        /\ pc \notin {"except", "exited", "crashed"}
        /\ Returned => (args.tags = req.tags /\ args.year = None)

\* C12: in the four template modes a request ends in a validation error or
\* in a returned configuration whose year is the first four characters of
\* build_id (of product_version when build_id is unset) and is four digits;
\* no request reaches name, tag or year derivation with build_id and
\* product_version both unset.
C12_YearFromBuildId ==
    /\ (args.mode \in TemplateModes /\ pc \in {"name", "tags", "year"}) =>
          (args.build_id # None \/ args.product_version # None)
    /\ (args.mode \in TemplateModes /\ pc \in {"exited", "crashed", "returned"}) =>
          \/ pc = "exited" /\ err # ""
          \/ /\ Returned
             /\ args.year = Slice(IF Truthy(args.build_id) THEN args.build_id
                                  ELSE args.product_version, 4)
             /\ Len(args.year) = 4
             /\ \A i \in 1..4 : IsDigit(args.year[i])

====
